---- MODULE Spec2Model ----
(***************************************************************************)
(* Model of spyplayer / fifoplayer (src/spyplayer.go, current variant      *)
(* startFifoPipes): one-time authorization, a publisher goroutine that     *)
(* polls the playback API and writes a line to the track FIFO, and the     *)
(* main goroutine that reads commands from the control FIFO and            *)
(* dispatches play / pause / next.                                         *)
(*                                                                         *)
(* Strings are sequences of one-character strings, so that trimming,       *)
(* joining and formatting are computed, not assumed.                       *)
(***************************************************************************)
EXTENDS Integers, Sequences, FiniteSets, TLC

\* ------------------------------------------------------------------ bounds
\* longest token lifetime handed out by the exchange, in clock ticks
MaxTTL == 2
\* longest artist list of a playback response
MaxArtists == 2
\* largest position / duration of a playback response, in milliseconds
MaxMs == 2
\* most requests reaching the callback listener during the handshake
MaxCallbacks == 2

\* the clock saturates one tick after the latest possible expiry
MaxTime == MaxTTL + 1

\* ------------------------------------------------------- program constants
\* buf := make([]byte, 128)
BufSize == 128
\* time.Sleep(time.Second * 3), one clock tick is one second
SleepSecs == 3

\* TrackControlAction constants (Go's Next is named NextTrack here, Next
\* being the next-state relation of this module)
Play == <<"p","l","a","y">>
Pause == <<"p","a","u","s","e">>
NextTrack == <<"n","e","x","t">>

\* FifoPipeName constants
pipeTrackDetails == "fifoplayer-track"
pipeTrackControl == "fifoplayer-control"

\* the literal of the else branch of writeTrackDetailsToPipe
NoTrackLine ==
  <<"N","o"," ","t","r","a","c","k"," ","c","u","r","r","e","n","t","l","y",
    " ","p","l","a","y","i","n","g">>
\* the " - " of the format string "%s - %s"
NameSep == <<" ","-"," ">>
\* the ", " appended between artists
ArtistSep == <<","," ">>

\* ------------------------------------------------------------ string helpers
Min(a, b) == IF a < b THEN a ELSE b

\* unicode.IsSpace on the ASCII range
IsSpace(c) == c \in {" ", "\t", "\n", "\r", "\f"}

RECURSIVE TrimLeft(_)
TrimLeft(s) ==
  IF s # <<>> /\ IsSpace(Head(s)) THEN TrimLeft(Tail(s)) ELSE s

RECURSIVE TrimRight(_)
TrimRight(s) ==
  IF s # <<>> /\ IsSpace(s[Len(s)]) THEN TrimRight(SubSeq(s, 1, Len(s) - 1)) ELSE s

\* strings.TrimSpace
TrimSpace(s) == TrimRight(TrimLeft(s))

\* ----------------------------------------------------------- pure functions

\* token.Expiry.Before(time.Now()), refresh when expiry = now as well
ExpiredAtOrBefore(expiry, t) == expiry <= t

\* token.Expiry.Before(time.Now())
Expired(expiry, t) == expiry < t

\* the switch of the control loop: the API call made for an action
\* ("none" when no case matches), wrong mapping
DispatchSwapped(a) ==
  IF a = Play THEN "pause"
  ELSE IF a = Pause THEN "play"
  ELSE IF a = NextTrack THEN "next"
  ELSE "none"

\* the switch of the control loop: the API call made for an action
\* ("none" when no case matches)
Dispatch(a) ==
  IF a = Play THEN "play"
  ELSE IF a = Pause THEN "pause"
  ELSE IF a = NextTrack THEN "next"
  ELSE "none"

\* one iteration of the artist loop with the separator put before every name
ArtistStepLeadingSep(acc, i, name) ==
  acc \o ArtistSep \o name

\* one iteration of the artist loop: i is Go's index plus one
ArtistStep(acc, i, name) ==
  (IF i > 1 THEN acc \o ArtistSep ELSE acc) \o name

RECURSIVE ArtistLoop(_, _, _)
ArtistLoop(artists, i, acc) ==
  IF i > Len(artists) THEN acc
  ELSE ArtistLoop(artists, i + 1, ArtistStep(acc, i, artists[i]))

\* artistNames as built by fetchTrackDetails
ArtistNames(artists) == ArtistLoop(artists, 1, <<>>)

\* progress of fetchTrackDetails, the quotient kept as the pair <<num, den>>
\* (zero value 0/1 when the division is not performed)
ProgressOf(position, duration) ==
  IF duration > 0 THEN <<position, duration>> ELSE <<0, 1>>

NilDetails == [nil |-> TRUE]

\* current != nil && current.Item != nil
HasItem(cur) == cur.body /\ ~cur.item.nil

\* fetchTrackDetails on a response that came back without error
FetchTrackDetails(cur) ==
  IF HasItem(cur)
  THEN [nil |-> FALSE,
        Name |-> cur.item.Name,
        Progress |-> ProgressOf(cur.Progress, cur.item.Duration),
        Artists |-> ArtistNames(cur.item.Artists),
        Album |-> cur.item.Album]
  ELSE NilDetails

\* the format of the earlier variant, album included
FormatLineOld(d) ==
  IF ~d.nil THEN d.Name \o NameSep \o d.Artists \o NameSep \o d.Album
  ELSE NoTrackLine

\* the sentinel of the earlier variant, with its trailing newline
FormatLineNewline(d) ==
  IF ~d.nil THEN d.Name \o NameSep \o d.Artists
  ELSE NoTrackLine \o <<"\n">>

\* output of writeTrackDetailsToPipe
FormatLine(d) ==
  IF ~d.nil THEN d.Name \o NameSep \o d.Artists
  ELSE NoTrackLine

\* --------------------------------------------------------------- input sets
TrackNames == { <<"S","o","n","g"," ","A">> }
ArtistNameSet == { <<"X">>, <<"Y">>, <<"T",","," ","C">> }
Albums == { <<"L","P">> }

\* artist lists of up to n names drawn from names
ArtistLists(names, n) == UNION { [1..k -> names] : k \in 0..n }

Item(n, as, al, d) ==
  [nil |-> FALSE, Name |-> n, Artists |-> as, Album |-> al, Duration |-> d]

\* what PlayerCurrentlyPlaying can return without error
NoBody == [body |-> FALSE]
NoItem == [body |-> TRUE, item |-> [nil |-> TRUE], Progress |-> 0]
\* (in the two loops: the artist lists X; X, Y; X, Y, X; ... up to MaxArtists)
Responses ==
  {NoBody, NoItem} \cup
  { [body |-> TRUE,
     item |-> Item(n, [i \in 1..k |-> IF i % 2 = 1 THEN <<"X">> ELSE <<"Y">>],
                   al, MaxMs),
     Progress |-> 1] :
      n \in TrackNames, k \in 0..MaxArtists, al \in Albums }

Spaces(n) == [i \in 1..n |-> " "]

\* payloads a writer delivers on the control pipe; the last one is longer
\* than the read buffer
CtlInputs ==
  { <<>>,
    Play,
    <<" "," ">> \o Pause \o <<"\n">>,
    NextTrack \o <<"\n">>,
    <<"s","t","o","p">>,
    <<" ","\n">>,
    Play \o <<"x">>,
    Play \o Spaces(BufSize - Len(Play)) \o <<"x">> }

VARIABLES
  now,          \* wall clock, in ticks, saturating at MaxTime
  exited,       \* the process has terminated (log.Fatalf)
  fatal,        \* which site terminated it
  fifos,        \* named pipes created by this run
  stale,        \* files left at the pipe paths by an earlier run
  tokenExpiry,  \* token.Expiry of the shared token
  client,       \* the shared client variable: who built the current client
  token,        \* the shared token variable: which token object it points to
  held,         \* per loop, the token passed to its refreshTokenAndClient
  chkAt,        \* per loop, time.Now() of the expiry check it has just made
  refd,         \* per loop, when its RefreshToken returned and whether err
                \* was nil, until the iteration moves on
  steps,        \* per loop, the operations of its current iteration
  pcPub,        \* position of the publisher goroutine
  pcCtl,        \* position of the main goroutine
  slept,        \* ticks slept in the current time.Sleep
  trackReader,  \* a reader has the track pipe open
  current,      \* response of this cycle's PlayerCurrentlyPlaying
  details,      \* details of this cycle
  line,         \* what this cycle wrote to the track pipe
  pubErr,       \* err of the publisher goroutine
  ctlWriter,    \* writer connected to the control pipe and its payload
  buf,          \* buf[:n] of the last Read
  action,       \* action of the current control iteration
  ctlErr,       \* err of the control loop
  issued,       \* API calls issued for the current control message
  srv,          \* the callback listener of setupClient
  cbs,          \* callback handler invocations, in order of arrival
  sendq,        \* handlers blocked in codeCh <- code, in order of blocking
  sendOrder,    \* every handler that reached its send, in that order
  code,         \* code received from codeCh
  exchanged,    \* codes passed to authenticator.Exchange
  grace         \* ticks spent in srv.Shutdown

\* shared by the two goroutines
shared == <<tokenExpiry, client, token>>
\* the publisher's locals and what it wrote
pubLocals == <<current, details, line, pubErr>>
\* the control pipe and the control loop's locals
ctlLocals == <<ctlWriter, buf, action, ctlErr, issued>>
\* the authorization handshake
authVars == <<srv, cbs, sendq, sendOrder, code, exchanged, grace>>

vars ==
  <<now, exited, fatal, fifos, stale, tokenExpiry, client, token, held,
    chkAt, refd, steps, pcPub, pcCtl, slept, trackReader, current, details,
    line, pubErr, ctlWriter, buf, action, ctlErr, issued, srv, cbs, sendq,
    sendOrder, code, exchanged, grace>>

NoWriter == [present |-> FALSE, bytes |-> <<>>]
NoLine == [some |-> FALSE, text |-> <<>>]
NoCheck == [pub |-> -1, ctl |-> -1]
NoRefresh == [pub |-> <<-1, TRUE>>, ctl |-> <<-1, TRUE>>]
NoSteps == [pub |-> <<>>, ctl |-> <<>>]
\* no code: the zero value of the code query parameter
NoCode == 0

\* the state at process start, but for the files already at the pipe paths,
\* the positions of the goroutines and the first response
InitCommon ==
  /\ now = 0
  /\ exited = FALSE
  /\ fatal = "none"
  /\ fifos = {}
  /\ tokenExpiry = 0
  /\ client = "none"
  /\ token = 0
  /\ held = [pub |-> 0, ctl |-> 0]
  /\ chkAt = NoCheck
  /\ refd = NoRefresh
  /\ steps = NoSteps
  /\ slept = 0
  /\ trackReader = FALSE
  /\ details = NilDetails
  /\ line = NoLine
  /\ pubErr = "nil"
  /\ ctlWriter = NoWriter
  /\ buf = <<>>
  /\ action = <<>>
  /\ ctlErr = "nil"
  /\ issued = <<>>
  /\ srv = "down"
  /\ cbs = <<>>
  /\ sendq = <<>>
  /\ sendOrder = <<>>
  /\ code = NoCode
  /\ exchanged = <<>>
  /\ grace = 0

Init ==
  /\ InitCommon
  /\ stale \in SUBSET {pipeTrackDetails, pipeTrackControl}
  /\ current = NoBody
  /\ pcPub = "idle"
  /\ pcCtl = "setup"

\* log.Fatalf: the whole process exits
LogFatalf(site) ==
  /\ exited' = TRUE
  /\ fatal' = site

\* ------------------------------------------------------------------ startup

\* setupClient as one step: the exchange yields the token and the client, or
\* is fatal (its handshake is taken apart in SpecAuth below)
SetupClient ==
  /\ ~exited /\ pcCtl = "setup"
  /\ \/ /\ \E ttl \in 1..MaxTTL : tokenExpiry' = now + ttl
        /\ client' = "auth"
        /\ token' = 1
        /\ pcCtl' = "spawn"
        /\ UNCHANGED <<exited, fatal>>
     \/ /\ LogFatalf("exchange")
        /\ UNCHANGED <<tokenExpiry, client, token, pcCtl>>
  /\ UNCHANGED <<now, fifos, stale, held, chkAt, refd, steps, pcPub, slept,
                 trackReader, pubLocals, ctlLocals, authVars>>

\* go func() { ... }()
Spawn ==
  /\ ~exited /\ pcCtl = "spawn"
  /\ pcPub' = "mkfifo"
  /\ pcCtl' = "mkfifo"
  /\ UNCHANGED <<now, exited, fatal, fifos, stale, shared, held, chkAt, refd,
                 steps, slept, trackReader, pubLocals, ctlLocals, authVars>>

\* createTempNamedPipe without its os.Remove
RemoveNothing(name) == stale

\* createTempNamedPipe, _ = os.Remove(pipePath): the files left afterwards
RemoveStale(name) == stale \ {name}

\* createTempNamedPipe: os.Remove, then mkfifo; the set of pipes afterwards
CreateTempNamedPipe(name, ok) ==
  IF ok THEN (fifos \ {name}) \cup {name} ELSE fifos \ {name}

PubMkfifo ==
  /\ ~exited /\ pcPub = "mkfifo"
  /\ stale' = RemoveStale(pipeTrackDetails)
  /\ \E ok \in BOOLEAN :
       /\ fifos' = CreateTempNamedPipe(pipeTrackDetails, ok)
       /\ IF ok THEN pcPub' = "check" /\ UNCHANGED <<exited, fatal>>
          ELSE LogFatalf("mkfifo-track") /\ UNCHANGED pcPub
  /\ UNCHANGED <<now, shared, held, chkAt, refd, steps, pcCtl, slept,
                 trackReader, pubLocals, ctlLocals, authVars>>

CtlMkfifo ==
  /\ ~exited /\ pcCtl = "mkfifo"
  /\ stale' = RemoveStale(pipeTrackControl)
  /\ \E ok \in BOOLEAN :
       /\ fifos' = CreateTempNamedPipe(pipeTrackControl, ok)
       /\ IF ok THEN pcCtl' = "open" /\ UNCHANGED <<exited, fatal>>
          ELSE LogFatalf("mkfifo-control") /\ UNCHANGED pcCtl
  /\ UNCHANGED <<now, shared, held, chkAt, refd, steps, pcPub, slept,
                 trackReader, pubLocals, ctlLocals, authVars>>

\* ------------------------------------------------------------ token refresh

\* refreshTokenAndClient returning the token RefreshToken hands back, a new
\* object
RefreshTokenAndClientNew(who, arg) ==
  /\ client' = who
  /\ tokenExpiry' = tokenExpiry
  /\ token' = (arg % 2) + 1

\* refreshTokenAndClient: the values RefreshToken returns (the refreshed
\* token and err) are dropped and the token passed in is returned, so the
\* stored expiry stays; the client variable is assigned a freshly built
\* client
RefreshTokenAndClient(who, arg) ==
  /\ client' = who
  /\ tokenExpiry' = tokenExpiry
  /\ token' = arg

\* ----------------------------------------------------------- publisher loop

\* the expiry check with a lock held across check and refresh
PubCheckLocked ==
  /\ ~exited /\ pcPub = "check"
  /\ pcCtl # "refresh"
  /\ pcPub' = IF Expired(tokenExpiry, now) THEN "refresh" ELSE "fetch"
  /\ chkAt' = [chkAt EXCEPT !.pub = now]
  /\ held' = IF Expired(tokenExpiry, now)
             THEN [held EXCEPT !.pub = token] ELSE held
  /\ steps' = [steps EXCEPT !.pub = Append(@, "check")]
  /\ UNCHANGED <<now, exited, fatal, fifos, stale, shared, refd, pcCtl, slept,
                 trackReader, pubLocals, ctlLocals, authVars>>

\* if token.Expiry.Before(time.Now())
PubCheck ==
  /\ ~exited /\ pcPub = "check"
  /\ pcPub' = IF Expired(tokenExpiry, now) THEN "refresh" ELSE "fetch"
  /\ chkAt' = [chkAt EXCEPT !.pub = now]
  /\ held' = IF Expired(tokenExpiry, now)
             THEN [held EXCEPT !.pub = token] ELSE held
  /\ steps' = [steps EXCEPT !.pub = Append(@, "check")]
  /\ UNCHANGED <<now, exited, fatal, fifos, stale, shared, refd, pcCtl, slept,
                 trackReader, pubLocals, ctlLocals, authVars>>

\* client, token = refreshTokenAndClient(authenticator, token); RefreshToken
\* succeeds or fails
PubRefresh ==
  /\ ~exited /\ pcPub = "refresh"
  /\ RefreshTokenAndClient("pub", held.pub)
  /\ \E ok \in BOOLEAN : refd' = [refd EXCEPT !.pub = <<now, ok>>]
  /\ pcPub' = "fetch"
  /\ chkAt' = [chkAt EXCEPT !.pub = -1]
  /\ UNCHANGED <<now, exited, fatal, fifos, stale, held, steps, pcCtl, slept,
                 trackReader, pubLocals, ctlLocals, authVars>>

\* a publisher error that is logged, the cycle going on to its sleep
PubErrorLogged(site) ==
  /\ pcPub' = "sleep"
  /\ UNCHANGED <<exited, fatal>>

\* if err != nil { log.Fatalf(...) } of the publisher loop
PubError(site) ==
  /\ LogFatalf(site)
  /\ UNCHANGED pcPub

\* details, err := fetchTrackDetails(client), the service answering with one
\* of rs
PubFetchFrom(rs) ==
  /\ ~exited /\ pcPub = "fetch"
  /\ \/ /\ \E r \in rs :
             /\ current' = r
             /\ details' = FetchTrackDetails(r)
        /\ pcPub' = "open"
        /\ UNCHANGED <<exited, fatal, pubErr>>
     \/ /\ pubErr' = "fetch"
        /\ PubError("fetch")
        /\ UNCHANGED <<current, details>>
  /\ chkAt' = [chkAt EXCEPT !.pub = -1]
  /\ refd' = [refd EXCEPT !.pub = <<-1, TRUE>>]
  /\ steps' = [steps EXCEPT !.pub = Append(@, "fetch")]
  /\ UNCHANGED <<now, fifos, stale, shared, held, pcCtl, slept, trackReader,
                 line, ctlLocals, authVars>>

PubFetch == PubFetchFrom(Responses)

\* writeTrackDetailsToPipe, os.OpenFile(O_WRONLY): returns once a reader has
\* the pipe open, or fails
PubOpen ==
  /\ ~exited /\ pcPub = "open"
  /\ \/ /\ trackReader
        /\ pcPub' = "write"
        /\ steps' = [steps EXCEPT !.pub = Append(@, "open")]
        /\ UNCHANGED <<exited, fatal, pubErr>>
     \/ /\ pubErr' = "open"
        /\ PubError("open")
        /\ UNCHANGED steps
  /\ UNCHANGED <<now, fifos, stale, shared, held, chkAt, refd, pcCtl, slept,
                 trackReader, current, details, line, ctlLocals, authVars>>

\* a line written from details no fetch has filled
WrittenLineUnfetched(d) == [some |-> TRUE, text |-> FormatLine(NilDetails)]

\* the line this cycle's WriteString puts into the pipe
WrittenLine(d) == [some |-> TRUE, text |-> FormatLine(d)]

\* writeTrackDetailsToPipe, format, WriteString and the deferred Close; the
\* write fails when the reader has gone
PubWrite ==
  /\ ~exited /\ pcPub = "write"
  /\ IF trackReader
     THEN /\ line' = WrittenLine(details)
          /\ pcPub' = "sleep"
          /\ UNCHANGED <<exited, fatal, pubErr>>
     ELSE /\ pubErr' = "write"
          /\ PubError("write")
          /\ UNCHANGED line
  /\ steps' = [steps EXCEPT !.pub = @ \o <<"write", "close">>]
  /\ UNCHANGED <<now, fifos, stale, shared, held, chkAt, refd, pcCtl, slept,
                 trackReader, current, details, ctlLocals, authVars>>

\* a sleep that ends only once the control loop has a message to read
PubWakeGated ==
  /\ ~exited /\ pcPub = "sleep"
  /\ slept >= SleepSecs
  /\ pcCtl # "open"
  /\ pcPub' = "check"
  /\ current' = NoBody
  /\ details' = NilDetails
  /\ line' = NoLine
  /\ slept' = 0
  /\ steps' = [steps EXCEPT !.pub = <<>>]
  /\ UNCHANGED <<now, exited, fatal, fifos, stale, shared, held, chkAt, refd,
                 pcCtl, trackReader, pubErr, ctlLocals, authVars>>

\* time.Sleep(time.Second * 3) has elapsed and the iteration ends; the next
\* one declares details afresh
PubWake ==
  /\ ~exited /\ pcPub = "sleep"
  /\ slept >= SleepSecs
  /\ pcPub' = "check"
  /\ current' = NoBody
  /\ details' = NilDetails
  /\ line' = NoLine
  /\ slept' = 0
  /\ steps' = [steps EXCEPT !.pub = <<>>]
  /\ UNCHANGED <<now, exited, fatal, fifos, stale, shared, held, chkAt, refd,
                 pcCtl, trackReader, pubErr, ctlLocals, authVars>>

\* ------------------------------------------------------------- control loop

\* a control-pipe error that is logged, the loop going on to its next message
CtlErrorLogged(site) ==
  /\ pcCtl' = "open"
  /\ UNCHANGED <<exited, fatal>>

\* if err != nil { log.Fatalf(...) } of the control loop
CtlError(site) ==
  /\ LogFatalf(site)
  /\ UNCHANGED pcCtl

\* readTrackControlFromPipe, os.OpenFile(O_RDONLY), the first operation of
\* an iteration: returns once a writer has the pipe open, or fails; a
\* failure is fatal in the caller
CtlOpen ==
  /\ ~exited /\ pcCtl = "open"
  /\ \/ /\ ctlWriter.present
        /\ pcCtl' = "read"
        /\ steps' = [steps EXCEPT !.ctl = <<"open">>]
        /\ UNCHANGED <<exited, fatal, ctlErr>>
     \/ /\ ctlErr' = "open"
        /\ CtlError("ctl-open")
        /\ UNCHANGED steps
  /\ UNCHANGED <<now, fifos, stale, shared, held, chkAt, refd, pcPub, slept,
                 trackReader, pubLocals, ctlWriter, buf, action, issued,
                 authVars>>

\* the control loop going from the read straight to the switch
AfterReadNoCheck == "dispatch"

\* what follows a successful read in the control loop: the expiry check
AfterRead == "check"

\* readTrackControlFromPipe, from Read to return: up to BufSize bytes are
\* read, trimmed and converted; Read returns io.EOF when the writer closed
\* without a byte, or another error; either is fatal in the caller; the
\* deferred Close drops what is left in the pipe
CtlRead ==
  /\ ~exited /\ pcCtl = "read"
  /\ LET n == Min(BufSize, Len(ctlWriter.bytes)) IN
       \/ /\ n > 0
          /\ buf' = SubSeq(ctlWriter.bytes, 1, n)
          /\ action' = TrimSpace(SubSeq(ctlWriter.bytes, 1, n))
          /\ issued' = <<>>
          /\ pcCtl' = AfterRead
          /\ UNCHANGED <<exited, fatal, ctlErr>>
       \/ /\ n = 0
          /\ ctlErr' = "eof"
          /\ CtlError("ctl-eof")
          /\ UNCHANGED <<buf, action, issued>>
       \/ /\ ctlErr' = "read"
          /\ CtlError("ctl-read")
          /\ UNCHANGED <<buf, action, issued>>
  /\ ctlWriter' = NoWriter
  /\ steps' = [steps EXCEPT !.ctl = @ \o <<"read", "close">>]
  /\ UNCHANGED <<now, fifos, stale, shared, held, chkAt, refd, pcPub, slept,
                 trackReader, pubLocals, authVars>>

\* if token.Expiry.Before(time.Now()), after the message has been read
CtlCheck ==
  /\ ~exited /\ pcCtl = "check"
  /\ pcCtl' = IF Expired(tokenExpiry, now) THEN "refresh" ELSE "dispatch"
  /\ chkAt' = [chkAt EXCEPT !.ctl = now]
  /\ held' = IF Expired(tokenExpiry, now)
             THEN [held EXCEPT !.ctl = token] ELSE held
  /\ steps' = [steps EXCEPT !.ctl = Append(@, "check")]
  /\ UNCHANGED <<now, exited, fatal, fifos, stale, shared, refd, pcPub, slept,
                 trackReader, pubLocals, ctlLocals, authVars>>

\* client, token = refreshTokenAndClient(authenticator, token); RefreshToken
\* succeeds or fails
CtlRefresh ==
  /\ ~exited /\ pcCtl = "refresh"
  /\ RefreshTokenAndClient("ctl", held.ctl)
  /\ \E ok \in BOOLEAN : refd' = [refd EXCEPT !.ctl = <<now, ok>>]
  /\ pcCtl' = "dispatch"
  /\ chkAt' = [chkAt EXCEPT !.ctl = -1]
  /\ UNCHANGED <<now, exited, fatal, fifos, stale, held, steps, pcPub, slept,
                 trackReader, pubLocals, ctlLocals, authVars>>

\* a failed call that terminates the process
CallResultFatal(ok) ==
  IF ok THEN UNCHANGED <<exited, fatal>> ELSE LogFatalf("call")

\* if err := client.Play(...); err != nil { log.Printf } else { log.Println }
CallResult(ok) == UNCHANGED <<exited, fatal>>

\* the calls one case of the switch makes
CallsMade(kind, ok) == <<[kind |-> kind, ok |-> ok]>>

\* switch action { case Play: ... case Pause: ... case Next: ... }
CtlDispatch ==
  /\ ~exited /\ pcCtl = "dispatch"
  /\ IF Dispatch(action) = "none"
     THEN UNCHANGED <<issued, exited, fatal, steps>>
     ELSE /\ \E ok \in BOOLEAN :
               /\ issued' = issued \o CallsMade(Dispatch(action), ok)
               /\ CallResult(ok)
          /\ steps' = [steps EXCEPT !.ctl = Append(@, "call")]
  /\ pcCtl' = "open"
  /\ chkAt' = [chkAt EXCEPT !.ctl = -1]
  /\ refd' = [refd EXCEPT !.ctl = <<-1, TRUE>>]
  /\ UNCHANGED <<now, fifos, stale, shared, held, pcPub, slept, trackReader,
                 pubLocals, ctlWriter, buf, action, ctlErr, authVars>>

\* -------------------------------------------------------------- environment

\* a second passes
Tick ==
  /\ ~exited /\ pcCtl # "setup"
  /\ now' = Min(now + 1, MaxTime)
  /\ slept' = IF pcPub = "sleep" THEN Min(slept + 1, SleepSecs) ELSE slept
  /\ UNCHANGED <<exited, fatal, fifos, stale, shared, held, chkAt, refd,
                 steps, pcPub, pcCtl, trackReader, pubLocals, ctlLocals,
                 authVars>>

\* a reader opens the track pipe
ReaderConnect ==
  /\ ~exited
  /\ pipeTrackDetails \in fifos
  /\ ~trackReader
  /\ trackReader' = TRUE
  /\ UNCHANGED <<now, exited, fatal, fifos, stale, shared, held, chkAt, refd,
                 steps, pcPub, pcCtl, slept, pubLocals, ctlLocals, authVars>>

\* the reader closes the track pipe
ReaderLeave ==
  /\ ~exited
  /\ trackReader
  /\ trackReader' = FALSE
  /\ UNCHANGED <<now, exited, fatal, fifos, stale, shared, held, chkAt, refd,
                 steps, pcPub, pcCtl, slept, pubLocals, ctlLocals, authVars>>

\* a writer opens the control pipe, writes its payload (possibly nothing),
\* one of ms, and closes; its open returns only while the control loop is in
\* its own open of the pipe
WriterSendFrom(ms) ==
  /\ ~exited /\ pcCtl = "open"
  /\ pipeTrackControl \in fifos
  /\ ~ctlWriter.present
  /\ \E m \in ms : ctlWriter' = [present |-> TRUE, bytes |-> m]
  /\ UNCHANGED <<now, exited, fatal, fifos, stale, shared, held, chkAt, refd,
                 steps, pcPub, pcCtl, slept, trackReader, pubLocals, buf,
                 action, ctlErr, issued, authVars>>

WriterSend == WriterSendFrom(CtlInputs)

Next ==
  \/ SetupClient
  \/ Spawn
  \/ PubMkfifo
  \/ CtlMkfifo
  \/ PubCheck
  \/ PubRefresh
  \/ PubFetch
  \/ PubOpen
  \/ PubWrite
  \/ PubWake
  \/ CtlOpen
  \/ CtlRead
  \/ CtlCheck
  \/ CtlRefresh
  \/ CtlDispatch
  \/ Tick
  \/ ReaderConnect
  \/ ReaderLeave
  \/ WriterSend

Spec == Init /\ [][Next]_vars

\* ---------------------------------------------- the two loops under fairness

\* the responses and the payloads of the fair specification: nothing
\* playing or one track; a command, a payload that is none, no byte at all
LiveResponses ==
  {NoBody,
   [body |-> TRUE, item |-> Item(<<"S">>, << <<"X">> >>, <<"L">>, MaxMs),
    Progress |-> 1]}
LiveInputs == {Play \o <<"\n">>, <<"s","t","o","p">>, <<>>}

InitLive ==
  /\ InitCommon
  /\ stale = {}
  /\ current = NoBody
  /\ pcPub = "idle"
  /\ pcCtl = "setup"

\* the steps of the publisher goroutine
PubStep ==
  \/ PubMkfifo
  \/ PubCheck
  \/ PubRefresh
  \/ PubFetchFrom(LiveResponses)
  \/ PubOpen
  \/ PubWrite
  \/ PubWake

\* the steps of the main goroutine
MainStep ==
  \/ SetupClient
  \/ Spawn
  \/ CtlMkfifo
  \/ CtlOpen
  \/ CtlRead
  \/ CtlCheck
  \/ CtlRefresh
  \/ CtlDispatch

NextLive ==
  \/ PubStep
  \/ MainStep
  \/ Tick
  \/ ReaderConnect
  \/ ReaderLeave
  \/ WriterSendFrom(LiveInputs)

\* the scheduler runs each goroutine that can take a step, and time passes;
\* whether an operation fails, and what the reader of the track pipe and the
\* writers of the control pipe do, is left open
Fairness ==
  /\ WF_vars(PubStep /\ ~exited')
  /\ WF_vars(MainStep /\ ~exited')
  /\ WF_vars(Tick)

SpecLive == InitLive /\ [][NextLive]_vars /\ Fairness

\* ------------------------------------------- fetch and format on their own

\* playback responses with every position and duration up to MaxMs and
\* every artist list up to MaxArtists
FetchInputs ==
  {NoBody, NoItem} \cup
  { [body |-> TRUE, item |-> Item(n, as, al, d), Progress |-> p] :
      n \in TrackNames, as \in ArtistLists(ArtistNameSet, MaxArtists),
      al \in Albums, d \in 0..MaxMs, p \in 0..MaxMs }

InitFetch ==
  /\ InitCommon
  /\ stale = {}
  /\ current \in FetchInputs
  /\ pcPub = "pure-fetch"
  /\ pcCtl = "pure"

\* fetchTrackDetails applied to the response
FetchApply ==
  /\ pcPub = "pure-fetch"
  /\ details' = FetchTrackDetails(current)
  /\ pcPub' = "pure-write"
  /\ UNCHANGED <<now, exited, fatal, fifos, stale, shared, held, chkAt, refd,
                 steps, pcCtl, slept, trackReader, current, line, pubErr,
                 ctlLocals, authVars>>

\* the formatting of writeTrackDetailsToPipe applied to the details
WriteApply ==
  /\ pcPub = "pure-write"
  /\ line' = [some |-> TRUE, text |-> FormatLine(details)]
  /\ pcPub' = "pure-done"
  /\ UNCHANGED <<now, exited, fatal, fifos, stale, shared, held, chkAt, refd,
                 steps, pcCtl, slept, trackReader, current, details, pubErr,
                 ctlLocals, authVars>>

NextFetch ==
  \/ FetchApply
  \/ WriteApply

SpecFetch == InitFetch /\ [][NextFetch]_vars

\* ------------------------------------------- the handshake of setupClient

\* the codes a callback can carry: none, or one of MaxCallbacks codes
Codes == 0..MaxCallbacks

InitAuth ==
  /\ InitCommon
  /\ stale = {}
  /\ current = NoBody
  /\ pcPub = "idle"
  /\ pcCtl = "auth-open"

\* the variables the handshake leaves alone
notAuth ==
  <<now, fifos, stale, held, chkAt, refd, steps, pcPub, slept, trackReader,
    pubLocals, ctlLocals>>

\* exec.Command("open", spotifyAuthUrl).Run(), fatal when it fails
OpenBrowser ==
  /\ ~exited /\ pcCtl = "auth-open"
  /\ \/ pcCtl' = "auth-serve" /\ UNCHANGED <<exited, fatal>>
     \/ LogFatalf("browser") /\ UNCHANGED pcCtl
  /\ UNCHANGED <<notAuth, shared, authVars>>

\* codeCh is made, the handler registered and the server goroutine started;
\* the main flow goes on to code := <-codeCh
StartServer ==
  /\ ~exited /\ pcCtl = "auth-serve"
  /\ srv' = "starting"
  /\ pcCtl' = "auth-wait"
  /\ UNCHANGED <<notAuth, shared, exited, fatal, cbs, sendq, sendOrder, code,
                 exchanged, grace>>

\* srv.ListenAndServe() in its goroutine: listens on :8080 or is fatal
Listen ==
  /\ ~exited /\ srv = "starting"
  /\ \/ srv' = "up" /\ UNCHANGED <<exited, fatal>>
     \/ LogFatalf("listen") /\ UNCHANGED srv
  /\ UNCHANGED <<notAuth, shared, pcCtl, cbs, sendq, sendOrder, code,
                 exchanged, grace>>

\* a request reaches the listener and its handler is invoked:
\* code := r.URL.Query().Get("code")
Callback ==
  /\ ~exited /\ srv = "up"
  /\ Len(cbs) < MaxCallbacks
  /\ \E c \in Codes : cbs' = Append(cbs, [code |-> c, st |-> "run"])
  /\ UNCHANGED <<notAuth, shared, exited, fatal, pcCtl, srv, sendq, sendOrder,
                 code, exchanged, grace>>

\* a handler without the return of its empty-code branch
HandlerOutcomeNoReturn(c) == "sending"

\* the handler: an empty code is answered with http.Error and the handler
\* returns; otherwise the success page is written and the handler is at
\* codeCh <- code
HandlerOutcome(c) == IF c = NoCode THEN "rejected" ELSE "sending"

\* the handler of callback i runs up to its return or its send
HandlerRun(i) ==
  /\ ~exited
  /\ i \in DOMAIN cbs /\ cbs[i].st = "run"
  /\ cbs' = [cbs EXCEPT ![i].st = HandlerOutcome(cbs[i].code)]
  /\ IF HandlerOutcome(cbs[i].code) = "sending"
     THEN sendq' = Append(sendq, i) /\ sendOrder' = Append(sendOrder, i)
     ELSE UNCHANGED <<sendq, sendOrder>>
  /\ UNCHANGED <<notAuth, shared, exited, fatal, pcCtl, srv, code, exchanged,
                 grace>>

\* code := <-codeCh: the unbuffered channel hands over the value of the
\* sender that has waited longest, and that handler returns
Receive ==
  /\ ~exited /\ pcCtl = "auth-wait"
  /\ sendq # <<>>
  /\ code' = cbs[Head(sendq)].code
  /\ cbs' = [cbs EXCEPT ![Head(sendq)].st = "done"]
  /\ sendq' = Tail(sendq)
  /\ pcCtl' = "auth-shutdown"
  /\ UNCHANGED <<notAuth, shared, exited, fatal, srv, sendOrder, exchanged,
                 grace>>

\* the grace period of the context passed to srv.Shutdown, in seconds
GraceSecs == 5

\* srv.Shutdown(ctx) closes the listener at once
ShutdownBegin ==
  /\ ~exited /\ pcCtl = "auth-shutdown" /\ srv = "up"
  /\ srv' = "closing"
  /\ UNCHANGED <<notAuth, shared, exited, fatal, pcCtl, cbs, sendq, sendOrder,
                 code, exchanged, grace>>

\* a second of the grace period passes
GraceTick ==
  /\ ~exited /\ srv = "closing"
  /\ grace < GraceSecs
  /\ grace' = grace + 1
  /\ UNCHANGED <<notAuth, shared, exited, fatal, pcCtl, srv, cbs, sendq,
                 sendOrder, code, exchanged>>

\* srv.Shutdown(ctx) returns when no handler is running or the context has
\* expired; what it returns is dropped
ShutdownEnd ==
  /\ ~exited /\ pcCtl = "auth-shutdown" /\ srv = "closing"
  /\ \/ \A i \in DOMAIN cbs : cbs[i].st \in {"rejected", "done"}
     \/ grace >= GraceSecs
  /\ srv' = "closed"
  /\ pcCtl' = "auth-exchange"
  /\ UNCHANGED <<notAuth, shared, exited, fatal, cbs, sendq, sendOrder, code,
                 exchanged, grace>>

\* token, err := authenticator.Exchange(ctx, code): fatal when it fails,
\* otherwise the client is built and setupClient returns
Exchange ==
  /\ ~exited /\ pcCtl = "auth-exchange"
  /\ exchanged' = Append(exchanged, code)
  /\ \/ /\ \E ttl \in 1..MaxTTL : tokenExpiry' = now + ttl
        /\ client' = "auth"
        /\ token' = 1
        /\ pcCtl' = "spawn"
        /\ UNCHANGED <<exited, fatal>>
     \/ /\ LogFatalf("exchange")
        /\ UNCHANGED <<tokenExpiry, client, token, pcCtl>>
  /\ UNCHANGED <<notAuth, srv, cbs, sendq, sendOrder, code, grace>>

NextAuth ==
  \/ OpenBrowser
  \/ StartServer
  \/ Listen
  \/ Callback
  \/ \E i \in 1..MaxCallbacks : HandlerRun(i)
  \/ Receive
  \/ ShutdownBegin
  \/ GraceTick
  \/ ShutdownEnd
  \/ Exchange

SpecAuth == InitAuth /\ [][NextAuth]_vars

\* ---------------------------------------------------- vocabulary of the claims

Commands == {Play, Pause, NextTrack}

KindOf(cmd) ==
  IF cmd = Play THEN "play" ELSE IF cmd = Pause THEN "pause" ELSE "next"

\* s without its leading and trailing whitespace, by positions: from the
\* first to the last character that is not whitespace
Kernel(s) ==
  LET ns == {k \in 1..Len(s) : ~IsSpace(s[k])} IN
    IF ns = {} THEN <<>>
    ELSE SubSeq(s, CHOOSE a \in ns : \A b \in ns : a <= b,
                   CHOOSE a \in ns : \A b \in ns : a >= b)

\* number of positions of s at which t occurs
Count(s, t) ==
  Cardinality({i \in 1..(Len(s) - Len(t) + 1) : SubSeq(s, i, i + Len(t) - 1) = t})

\* the names with sep between each adjacent pair
RECURSIVE Joined(_, _)
Joined(names, sep) ==
  IF names = <<>> THEN <<>>
  ELSE IF Len(names) = 1 THEN names[1]
  ELSE names[1] \o sep \o Joined(Tail(names), sep)

RECURSIVE SumCount(_, _)
SumCount(names, t) ==
  IF names = <<>> THEN 0 ELSE Count(names[1], t) + SumCount(Tail(names), t)

\* ------------------------------------------------------------------- claims

\* C1: when the bytes read from the control pipe trim to "play", "pause" or
\* "next", the dispatch of that message issues exactly one API call, of the
\* matching kind, none before it, and the loop is back at the open of the
\* pipe with the process alive.
C1_RecognisedCommandDispatched ==
  [][ (pcCtl = "dispatch" /\ pcCtl' # "dispatch" /\ Kernel(buf) \in Commands)
        => /\ issued = <<>>
           /\ Len(issued') = 1
           /\ issued'[1].kind = KindOf(Kernel(buf))
           /\ pcCtl' = "open"
           /\ ~exited' ]_vars

\* C1 witness: "  pause\n" was read and exactly one pause call was issued
C1_Witness ==
  /\ ~exited /\ pcCtl = "open"
  /\ buf = <<" "," ">> \o Pause \o <<"\n">>
  /\ issued = <<[kind |-> "pause", ok |-> TRUE]>>

\* C2 as stated: whatever a writer delivers whose trimmed content is not a
\* command, the read of it does not terminate the process and leads to no
\* API call.
C2_UnrecognisedInputIgnored ==
  [][ (pcCtl = "read" /\ ctlWriter.present /\ ~ctlWriter'.present
       /\ Kernel(ctlWriter.bytes) \notin Commands)
        => /\ fatal' # "ctl-eof"
           /\ (pcCtl' = "check" => Dispatch(action') = "none") ]_vars

\* C3 as stated: a loop refreshes iff expiry <= now at its check.
C3_RefreshIffExpiryAtOrBefore ==
  /\ (pcPub = "refresh" => tokenExpiry <= chkAt.pub)
  /\ (pcPub = "fetch" /\ chkAt.pub # -1 => ~(tokenExpiry <= chkAt.pub))
  /\ (pcCtl = "refresh" => tokenExpiry <= chkAt.ctl)
  /\ (pcCtl = "dispatch" /\ chkAt.ctl # -1 => ~(tokenExpiry <= chkAt.ctl))

\* C3 amended: in both loops a refresh is triggered at an expiry check iff
\* the stored expiry is strictly before the time of the check; when expiry
\* equals that time no refresh is triggered.
C3_RefreshIffExpiryBefore ==
  /\ (pcPub = "refresh" => tokenExpiry < chkAt.pub)
  /\ (pcPub = "fetch" /\ chkAt.pub # -1 => ~(tokenExpiry < chkAt.pub))
  /\ (pcCtl = "refresh" => tokenExpiry < chkAt.ctl)
  /\ (pcCtl = "dispatch" /\ chkAt.ctl # -1 => ~(tokenExpiry < chkAt.ctl))

\* C3 witness: the publisher checked at the very time of the expiry and
\* went on to fetch without a refresh
C3_Witness ==
  /\ ~exited /\ pcPub = "fetch" /\ chkAt.pub = tokenExpiry

\* C4: when the fetch of a cycle reported no body or no item, details is
\* nil and the line written in that cycle is exactly the sentinel.
C4_NoTrackSentinel ==
  (line.some /\ ~HasItem(current))
    => /\ details = NilDetails
       /\ line.text = NoTrackLine

\* C4 witness: a line was written in a cycle whose response had a body but
\* no item
C4_Witness ==
  /\ pcPub = "sleep" /\ line.some /\ current = NoItem

\* C5: when the fetch of a cycle reported an item, the line written in that
\* cycle is the name, " - ", and the artist names joined with ", " in input
\* order; the album does not occur in it.
C5_TrackLine ==
  (line.some /\ HasItem(current))
    => /\ line.text = current.item.Name \o <<" ","-"," ">>
                        \o Joined(current.item.Artists, <<","," ">>)
       /\ Count(line.text, current.item.Album) = 0

\* C5 witness: "Song A" by X and Y was published as "Song A - X, Y"
C5_Witness ==
  /\ pcPub = "sleep" /\ line.some /\ HasItem(current)
  /\ current.item.Artists = << <<"X">>, <<"Y">> >>
  /\ line.text = <<"S","o","n","g"," ","A"," ","-"," ","X",","," ","Y">>

\* C6 as stated: the artist string holds exactly N-1 separators and keeps
\* the order of the N names.
C6_ExactlyNMinusOneSeparators ==
  (pcPub # "pure-fetch" /\ HasItem(current))
    => /\ Count(details.Artists, <<","," ">>) = Len(current.item.Artists) - 1
       /\ details.Artists = Joined(current.item.Artists, <<","," ">>)

\* C6 amended: the artist string is the N names in input order with one
\* separator between each adjacent pair; for N >= 1 the separator occurs
\* N-1 times plus once for each occurrence inside a name, and for N = 0 the
\* string is empty.
C6_SeparatorsBetweenNames ==
  (pcPub # "pure-fetch" /\ HasItem(current))
    => LET as == current.item.Artists IN
       /\ details.Artists = Joined(as, <<","," ">>)
       /\ Len(as) = 0 => details.Artists = <<>>
       /\ Len(as) >= 1 =>
            Count(details.Artists, <<","," ">>)
              = Len(as) - 1 + SumCount(as, <<","," ">>)

\* C6 witness: two artists, one of them with ", " in its name: two
\* occurrences of the separator
C6_Witness ==
  /\ pcPub = "pure-write" /\ HasItem(current)
  /\ current.item.Artists = << <<"T",","," ","C">>, <<"X">> >>
  /\ Count(details.Artists, <<","," ">>) = 2

\* C7 as stated: with duration > 0 the progress equals position/duration
\* and lies in [0,1]; with duration 0 it is 0.
C7_ProgressInUnitInterval ==
  (pcPub # "pure-fetch" /\ HasItem(current))
    => LET pr == details.Progress
           d == current.item.Duration
           p == current.Progress IN
       /\ d > 0 => /\ pr[1] * d = p * pr[2]
                   /\ 0 <= pr[1] /\ pr[1] <= pr[2]
       /\ d = 0 => pr[1] = 0

\* C8: once the publisher's fetch, open or write has returned an error the
\* process has exited, and after the exit no line is written and no command
\* is read or dispatched.
C8_PublisherErrorFatal ==
  [][ /\ pubErr' # "nil" => exited'
      /\ exited => UNCHANGED <<line, pcPub, pcCtl, ctlWriter, buf, action,
                               issued>> ]_vars

\* C8 witness: the write failed and the process is gone with a command
\* waiting on the control pipe
C8_Witness ==
  /\ exited /\ pubErr = "write" /\ fatal = "write"
  /\ ctlWriter.present

\* C9: a step in which a dispatched call fails leaves the process running,
\* makes that one call only, puts the control loop back at the open of the
\* pipe and leaves the publisher where it was.
C9_CallFailureSwallowed ==
  [][ (issued' # issued /\ \E k \in 1..Len(issued') : ~issued'[k].ok)
        => /\ ~exited'
           /\ Len(issued') = 1
           /\ pcCtl' = "open"
           /\ pcPub' = pcPub ]_vars

\* C9 witness: after a failed skip the control loop has opened the pipe
\* for the next command while the publisher is in its cycle
C9_Witness ==
  /\ ~exited /\ pcCtl = "read" /\ pcPub = "write"
  /\ issued = <<[kind |-> "next", ok |-> FALSE]>>

\* C10: nothing excludes the two loops from each other: while one loop's
\* refresh is in flight the other loop's check of the same expired token
\* enters a refresh too, and while one loop is about to use the client the
\* other loop's assignment of it can take place.
C10_NoMutualExclusion ==
  /\ (~exited /\ pcCtl = "refresh" /\ pcPub = "check"
      /\ Expired(tokenExpiry, now))
       => ENABLED (PubCheck /\ pcPub' = "refresh")
  /\ (~exited /\ pcPub = "refresh" /\ pcCtl = "check"
      /\ Expired(tokenExpiry, now))
       => ENABLED (CtlCheck /\ pcCtl' = "refresh")
  /\ (~exited /\ pcPub = "refresh" /\ pcCtl = "dispatch") => ENABLED PubRefresh
  /\ (~exited /\ pcCtl = "refresh" /\ pcPub = "fetch") => ENABLED CtlRefresh

\* C10 witness: both loops have seen the same expired token at their checks
\* and both refreshes are in flight
C10_Witness ==
  /\ ~exited /\ pcPub = "refresh" /\ pcCtl = "refresh"
  /\ tokenExpiry < chkAt.pub /\ tokenExpiry < chkAt.ctl


\* the two goroutines that run the loops
Loops == {"pub", "ctl"}

\* the operations of a whole publisher cycle up to its sleep
PubCycle == <<"check", "fetch", "open", "write", "close">>

\* s is an initial part of t
IsPrefix(s, t) == Len(s) <= Len(t) /\ SubSeq(t, 1, Len(s)) = s

\* op occurs in the iteration history h before position i
Before(h, op, i) == \E j \in 1..(i - 1) : h[j] = op

\* C11 as stated: once a loop's refresh has succeeded, the token the loops
\* consult carries the refreshed expiry, which is later than the time of the
\* refresh, so the next check does not find it expired again before that.
C11_RefreshedExpiryStored ==
  \A l \in Loops :
    (refd[l][1] # -1 /\ refd[l][2]) => tokenExpiry > refd[l][1]

\* C12: the shared token variable always points to the token object the
\* authorization produced, and the token a loop passes to its refresh is
\* that same object, whatever the other loop has done meanwhile.
C12_OneTokenObject ==
  /\ client # "none" => token = 1
  /\ pcPub = "refresh" => held.pub = token
  /\ pcCtl = "refresh" => held.ctl = token
  /\ (pcPub = "refresh" /\ pcCtl = "refresh") => held.pub = held.ctl

\* C12 witness: both loops are inside a refresh after an earlier refresh has
\* completed
C12_Witness ==
  /\ ~exited /\ pcPub = "refresh" /\ pcCtl = "refresh"
  /\ client \in Loops

\* C13 as stated: when a loop's RefreshToken has failed the process has
\* terminated.
C13_FailedRefreshFatal ==
  \A l \in Loops :
    (refd[l][1] # -1 /\ ~refd[l][2]) => exited

\* C14 as stated: in both loops the expiry check is the first operation of
\* the iteration, in the control loop before the pipe is opened and read.
C14_CheckFirstInBothLoops ==
  \A l \in Loops : steps[l] # <<>> => steps[l][1] = "check"

\* C14 amended: the publisher's check is the first operation of its
\* iteration, before the fetch; the control loop's check comes after its
\* pipe has been opened, read and closed and before any call; neither loop
\* makes an API call without a check earlier in the same iteration.
C14_CheckBeforeApiCall ==
  /\ steps.pub # <<>> => steps.pub[1] = "check"
  /\ \A i \in DOMAIN steps.pub :
       steps.pub[i] = "fetch" => Before(steps.pub, "check", i)
  /\ \A i \in DOMAIN steps.ctl :
       /\ steps.ctl[i] = "call" => Before(steps.ctl, "check", i)
       /\ steps.ctl[i] = "check" => /\ Before(steps.ctl, "open", i)
                                    /\ Before(steps.ctl, "read", i)
                                    /\ Before(steps.ctl, "close", i)
  /\ pcCtl = "dispatch" => \E i \in DOMAIN steps.ctl : steps.ctl[i] = "check"
  /\ pcPub = "fetch" => \E i \in DOMAIN steps.pub : steps.pub[i] = "check"

\* C14 witness: the control loop has made a call in an iteration that
\* opened and read the pipe, then checked, while the publisher is about to
\* fetch after its check
C14_Witness ==
  /\ steps.ctl = <<"open", "read", "close", "check", "call">>
  /\ pcPub = "fetch" /\ steps.pub = <<"check">>

\* C15: the operations of a publisher cycle are, in order, the check, one
\* fetch, the open, one write and the close, and the sleep begins only after
\* all of them; a line written was formatted from the response fetched in
\* the same cycle; the pipe is open only between the open and the write, and
\* a new cycle starts with nothing carried over.
C15_PublisherCycleOrder ==
  /\ IsPrefix(steps.pub, PubCycle)
  /\ pcPub = "sleep" => steps.pub = PubCycle
  /\ (pcPub = "check" /\ ~exited) => (steps.pub = <<>> /\ ~line.some)
  /\ (\E i \in DOMAIN steps.pub : steps.pub[i] = "open")
       => (pcPub = "write" \/ \E i \in DOMAIN steps.pub : steps.pub[i] = "close")
  /\ line.some => /\ \E i \in DOMAIN steps.pub : steps.pub[i] = "fetch"
                  /\ line.text = FormatLine(FetchTrackDetails(current))

\* C15 witness: a cycle that fetched a track has written its line and is in
\* its sleep
C15_Witness ==
  /\ ~exited /\ pcPub = "sleep" /\ slept > 0
  /\ line.some /\ HasItem(current)
  /\ steps.pub = PubCycle

\* positions inside the publisher loop and inside the control loop
PubLoopPcs == {"check", "refresh", "fetch", "open", "write", "sleep"}
CtlLoopPcs == {"open", "read", "check", "refresh", "dispatch"}

\* the message a writer has put on the control pipe trims to a command
CommandWaiting ==
  /\ ctlWriter.present
  /\ Kernel(SubSeq(ctlWriter.bytes, 1, Min(BufSize, Len(ctlWriter.bytes))))
       \in Commands

\* C16: whatever the control loop does, blocked for good in the open of its
\* pipe included, a publisher cycle that has started reaches its sleep
\* unless the process exits or the reader of the track pipe is away, and the
\* sleep ends; whatever the publisher does, asleep or blocked in its open
\* included, a command put on the control pipe is dispatched unless the
\* process exits; and a loop never leaves its loop.
C16_LoopsProgressIndependently ==
  /\ (pcPub = "check")
       ~> (exited \/ pcPub = "sleep" \/ ~trackReader)
  /\ (pcPub = "sleep") ~> (exited \/ pcPub = "check")
  /\ CommandWaiting
       ~> (exited \/ /\ pcCtl = "open" /\ ~ctlWriter.present
                     /\ Len(issued) = 1
                     /\ issued[1].kind = KindOf(action))
  /\ [][ /\ pcPub \in PubLoopPcs => pcPub' \in PubLoopPcs
         /\ pcCtl \in CtlLoopPcs => pcCtl' \in CtlLoopPcs ]_vars

\* C16 witness: the publisher has written a line and slept while the
\* control loop, having dispatched nothing yet, waits for a first writer
C16_Witness ==
  /\ ~exited /\ pcCtl = "open" /\ ~ctlWriter.present /\ steps.ctl = <<>>
  /\ pcPub = "sleep" /\ line.some /\ slept >= SleepSecs

\* C17: a loop runs only after the authorization has produced the client
\* and the token, which happens once; a loop runs only with its pipe newly
\* created and no file of an earlier run left at its path; when the creation
\* of a pipe failed the process has exited and the loop of that pipe has run
\* nothing; once created a pipe is never removed, and no step goes back to
\* the authorization or to the creation of a pipe.
C17_StartupOrder ==
  /\ [] /\ (pcPub # "idle" \/ pcCtl # "setup")
             => (client # "none" /\ token = 1)
        /\ pcPub \in PubLoopPcs
             => (pipeTrackDetails \in fifos /\ pipeTrackDetails \notin stale)
        /\ pcCtl \in CtlLoopPcs
             => (pipeTrackControl \in fifos /\ pipeTrackControl \notin stale)
        /\ fatal = "mkfifo-track"
             => (exited /\ pcPub = "mkfifo" /\ steps.pub = <<>>)
        /\ fatal = "mkfifo-control"
             => (exited /\ pcCtl = "mkfifo" /\ steps.ctl = <<>>)
  /\ [][ /\ fifos \subseteq fifos'
         /\ pipeTrackDetails \in (fifos' \ fifos) => pcPub = "mkfifo"
         /\ pipeTrackControl \in (fifos' \ fifos) => pcCtl = "mkfifo"
         /\ pcPub' = "mkfifo" => pcPub \in {"idle", "mkfifo"}
         /\ pcCtl' = "mkfifo" => pcCtl \in {"spawn", "mkfifo"}
         /\ pcCtl' = "setup" => pcCtl = "setup"
         /\ pcCtl # "setup" => UNCHANGED <<tokenExpiry, token>> ]_vars

\* C17 witness: both loops are inside an iteration, each over its own pipe,
\* with nothing left of the files found at startup
C17_Witness ==
  /\ ~exited /\ pcPub = "write" /\ pcCtl = "dispatch"
  /\ fifos = {pipeTrackDetails, pipeTrackControl}
  /\ stale = {}
  /\ client = "auth"

\* C18: when the open or the read of the control pipe has failed, an end of
\* file included, the process has exited at that site and nothing more
\* happens: the control loop reads no further message and the publisher
\* takes no further step.
C18_ControlPipeFailureFatal ==
  ctlErr # "nil"
    => /\ exited
       /\ fatal = (IF ctlErr = "open" THEN "ctl-open"
                   ELSE IF ctlErr = "eof" THEN "ctl-eof" ELSE "ctl-read")
       /\ ~ENABLED Next

\* C18 witness: the read met an end of file and the process is gone with
\* the publisher in the middle of a cycle
C18_Witness ==
  /\ exited /\ ctlErr = "eof" /\ fatal = "ctl-eof"
  /\ pcPub = "write"

\* callbacks that carried a code, in order of arrival
Coded == {i \in DOMAIN cbs : cbs[i].code # NoCode}

\* what C19 says of the handshake apart from which code is exchanged: the
\* main flow is past its receive only with a code a handler has handed
\* over; a callback without a code is answered with an error and never
\* reaches the send; the exchange is attempted once, with the listener shut
\* down within the grace period; a failed exchange has ended the process.
HandshakeOrder ==
  /\ pcCtl \in {"auth-shutdown", "auth-exchange", "spawn"}
       => /\ code # NoCode
          /\ \E i \in DOMAIN cbs : cbs[i].st = "done" /\ cbs[i].code = code
  /\ srv \in {"closing", "closed"} => code # NoCode
  /\ \A i \in DOMAIN cbs :
       cbs[i].code = NoCode
         => /\ cbs[i].st \in {"run", "rejected"}
            /\ \A k \in DOMAIN sendOrder : sendOrder[k] # i
  /\ (pcCtl = "auth-exchange" \/ exchanged # <<>>)
       => (srv = "closed" /\ grace <= GraceSecs)
  /\ Len(exchanged) <= 1
  /\ exchanged # <<>> => exchanged[1] = code
  /\ pcCtl = "spawn" => Len(exchanged) = 1
  /\ fatal = "exchange" => (exited /\ Len(exchanged) = 1 /\ client = "none")

\* C19 as stated: the handshake keeps its order, and the code exchanged is
\* that of the first callback to arrive with a code.
C19_FirstArrivedCodeExchanged ==
  /\ HandshakeOrder
  /\ exchanged # <<>>
       => \E i \in Coded : /\ \A j \in Coded : i <= j
                           /\ exchanged[1] = cbs[i].code

\* C19 amended: the handshake keeps its order, and the code exchanged is
\* that of the first handler to reach its send on the channel, which need
\* not be the handler of the first callback to arrive.
C19_FirstSentCodeExchanged ==
  /\ HandshakeOrder
  /\ exchanged # <<>>
       => /\ sendOrder # <<>>
          /\ exchanged[1] = cbs[sendOrder[1]].code
          /\ cbs[sendOrder[1]].st = "done"

\* C19 witness: a callback without a code was rejected, a later one handed
\* its code over, the listener was shut down and that code was exchanged
C19_Witness ==
  /\ ~exited /\ pcCtl = "spawn" /\ srv = "closed"
  /\ Len(cbs) = 2
  /\ cbs[1].code = NoCode /\ cbs[1].st = "rejected"
  /\ exchanged = <<cbs[2].code>>

\* C20 as stated, in the form a finite run refutes: codeCh is received from
\* once, so a handler still at its send after that receive stays there for
\* good; no handler is at its send once the main flow has its code.
C20_NoHandlerLeftSending ==
  code # NoCode => \A i \in DOMAIN cbs : cbs[i].st # "sending"

====
